---- MODULE Spec2Model ----
(***************************************************************************)
(* SearchShell: the context-assembly pipeline of GeminiWebWrapper           *)
(* (SearchShellGemini.py) and OllamaWebWrapper (ollama_web_shell.py,        *)
(* ollama-web-wrapper.py carries an identical copy of the class).           *)
(*                                                                         *)
(* A Python str is a sequence of tokens.  A token is one character of page  *)
(* text, or one literal piece of an f-string ("Source: ", the separator     *)
(* line), or one atomic field value (a URL, a title word).  " " and "\n"    *)
(* are the whitespace tokens.  A parsed HTML document is a sequence of      *)
(* nodes [tag, cls, text, kids]; a text node has the tag "#text".           *)
(* A Python call that may raise returns [exc, val]: exc = TRUE is an        *)
(* exception leaving the function, and the caller propagates it.            *)
(***************************************************************************)
EXTENDS Integers, Sequences, FiniteSets, TLC

VARIABLES variant, pc, arg, num_results, provider, collected, results, idx,
          context, origin, content, doc, response, calls, raised, trace,
          peer, shell, log

vars == <<variant, pc, arg, num_results, provider, collected, results, idx,
          context, origin, content, doc, response, calls, raised, trace,
          peer, shell, log>>

\* ------------------------------------------------------------------ bounds
\* Most records a search may be asked for (the caller's numResults).
MaxResults == 3
\* Most top-level element nodes of a generated HTML document.
MaxTop == 2

\* ---------------------------------------------------------------- constants
\* cleaned_text[:2000]
MaxContentLen == 2000
\* self.num_results = 3
DefaultResults == 3

NL == "\n"
SP == " "
Whitespace == {SP, NL}
\* '=' * 50
SEP == "=================================================="
ADVISORY == "No context was found from web searches. The model will provide a general response without current information."

\* ------------------------------------------------------------ str helpers
Rep(c, n) == [i \in 1..n |-> c]

\* str.strip(): both ends lose their whitespace.
strip(s) ==
  IF \A i \in 1..Len(s) : s[i] \in Whitespace THEN <<>>
  ELSE LET a == CHOOSE i \in 1..Len(s) :
                  s[i] \notin Whitespace /\ \A j \in 1..(i-1) : s[j] \in Whitespace
           b == CHOOSE i \in 1..Len(s) :
                  s[i] \notin Whitespace /\ \A j \in (i+1)..Len(s) : s[j] \in Whitespace
       IN SubSeq(s, a, b)

\* str.split('\n'): the pieces between newlines, empty pieces kept.
RECURSIVE split_nl(_)
split_nl(s) ==
  LET P == {i \in 1..Len(s) : s[i] = NL}
  IN IF P = {} THEN <<s>>
     ELSE LET i == CHOOSE p \in P : \A q \in P : p <= q
          IN <<SubSeq(s, 1, i-1)>> \o split_nl(SubSeq(s, i+1, Len(s)))

\* sep.join(parts)
RECURSIVE join(_, _)
join(sep, parts) ==
  IF parts = <<>> THEN <<>>
  ELSE IF Len(parts) = 1 THEN parts[1]
  ELSE parts[1] \o sep \o join(sep, Tail(parts))

\* [f(x) for x in xs]: strip every piece
StripAll(xs) == [i \in 1..Len(xs) |-> strip(xs[i])]

NonEmpty(xs) == SelectSeq(xs, LAMBDA x : x # <<>>)

\* ------------------------------------------------------------- HTML trees
Text(s) == [tag |-> "#text", cls |-> {}, text |-> s, kids |-> <<>>]
Elem(t, c, k) == [tag |-> t, cls |-> c, text |-> <<>>, kids |-> k]

\* soup(['script', ...]) ... element.decompose()
Unwanted == {"script", "style", "nav", "header", "footer", "iframe", "noscript"}
\* soup.find('div', {'class': [...]})
ContentClasses == {"content", "main", "article"}

\* The tree left once every unwanted element is decomposed with its subtree.
RECURSIVE Decompose(_)
Decompose(nodes) ==
  IF nodes = <<>> THEN <<>>
  ELSE LET n == Head(nodes)
       IN IF n.tag \in Unwanted THEN Decompose(Tail(nodes))
          ELSE <<[n EXCEPT !.kids = Decompose(n.kids)]>> \o Decompose(Tail(nodes))

\* The element nodes of a tree in document order (the order find() searches).
RECURSIVE Descendants(_)
Descendants(nodes) ==
  IF nodes = <<>> THEN <<>>
  ELSE LET n == Head(nodes)
       IN (IF n.tag = "#text" THEN <<>> ELSE <<n>> \o Descendants(n.kids))
          \o Descendants(Tail(nodes))

\* soup.find(tag): the first such element, a one-element sequence, or <<>> (None).
find(nodes, tag) ==
  LET m == SelectSeq(Descendants(nodes), LAMBDA n : n.tag = tag)
  IN IF m = <<>> THEN <<>> ELSE <<m[1]>>

\* soup.find('div', {'class': ['content', 'main', 'article']})
find_div_class(nodes) ==
  LET m == SelectSeq(Descendants(nodes),
                     LAMBDA n : n.tag = "div" /\ n.cls \cap ContentClasses # {})
  IN IF m = <<>> THEN <<>> ELSE <<m[1]>>

\* a or b or c: the first operand that is not None (a Tag is always truthy).
py_or(a, b, c) == IF a # <<>> THEN a ELSE IF b # <<>> THEN b ELSE c

\* The text runs of a tree in document order.
RECURSIVE Strings(_)
Strings(nodes) ==
  IF nodes = <<>> THEN <<>>
  ELSE LET n == Head(nodes)
       IN (IF n.tag = "#text" THEN <<n.text>> ELSE Strings(n.kids))
          \o Strings(Tail(nodes))

\* get_text(separator='\n', strip=True)
get_text(nodes) == join(<<NL>>, NonEmpty(StripAll(Strings(nodes))))

\* Mutant: the article is tried before the main element.
main_content_article_first(soup) ==
  py_or(find(soup, "article"), find(soup, "main"), find_div_class(soup))

\* main_content = soup.find('main') or soup.find('article') or soup.find('div', ...)
main_content(soup) == py_or(find(soup, "main"), find(soup, "article"), find_div_class(soup))

\* lines = [line.strip() for line in text.split('\n') if line.strip()]
\* cleaned_text = '\n'.join(lines)
cleaned_text(text) == join(<<NL>>, NonEmpty(StripAll(split_nl(text))))

\* The body of extract_content's try block after a successful GET.
page_text(page) ==
  LET soup == Decompose(page)
      mc   == main_content(soup)
  IN cleaned_text(IF mc # <<>> THEN get_text(mc) ELSE get_text(soup))

\* Mutant: the cut is one character late.
truncate_late(s) == SubSeq(s, 1, IF Len(s) < MaxContentLen + 1 THEN Len(s) ELSE MaxContentLen + 1)

\* cleaned_text[:2000]
truncate(s) == SubSeq(s, 1, IF Len(s) < MaxContentLen THEN Len(s) ELSE MaxContentLen)

\* An HTTP exchange: requests.get + raise_for_status either raise (timeout,
\* transport error, non-success status) or give the page.
Failures == {"timeout", "conn_error", "http_error"}
Failed(kind) == [kind |-> kind, page |-> <<>>]
Ok(page) == [kind |-> "ok", page |-> page]

\* Mutant: the try block has no except clause.
extract_content_nocatch(url, resp) ==
  IF url = <<>> \/ resp.kind \in Failures
    THEN [exc |-> TRUE, val |-> <<>>]
    ELSE [exc |-> FALSE, val |-> truncate(page_text(resp.page))]

\* extract_content(url): every exception of the try block is caught and "" returned.
extract_content(url, resp) ==
  IF url = <<>> \/ resp.kind \in Failures
    THEN [exc |-> FALSE, val |-> <<>>]
    ELSE [exc |-> FALSE, val |-> truncate(page_text(resp.page))]

\* _get_page_title(url): soup.title.string.strip(), or the URL when the page has no
\* title, the title has no single string, or anything raised.
title_string(page) ==
  LET t == find(page, "title")
  IN IF t = <<>> THEN <<>>
     ELSE IF Len(t[1].kids) = 1 /\ t[1].kids[1].tag = "#text" THEN <<t[1].kids[1].text>>
     ELSE <<>>

_get_page_title(url, resp) ==
  IF url = <<>> \/ resp.kind \in Failures \/ title_string(resp.page) = <<>>
    THEN [exc |-> FALSE, val |-> url]
    ELSE [exc |-> FALSE, val |-> strip(title_string(resp.page)[1])]

\* ------------------------------------------------------ completion backend
\* What the completion backend does with the one request: a transport or HTTP
\* failure, or a response whose body is good, lacks a key (KeyError), holds an
\* empty list (IndexError) or holds a value of the wrong type (TypeError).
TransportFailures == {"timeout", "conn_error", "http_error"}
ShapeFailures == {"missing_key", "empty_list", "bad_type"}
Replies == TransportFailures \cup ShapeFailures \cup {"good"}
ANSWER == "answer"

ERR_API == "Error querying Gemini API: "
ERR_PARSE == "Error parsing Gemini response: "
ERR_UNEXPECTED == "Unexpected error: "
ERR_OLLAMA == "Error querying Ollama: "

\* Mutant: the context is tested without strip().
query_gemini_nostrip(prompt, ctx, reply) ==
  IF ctx = <<>> THEN [exc |-> FALSE, val |-> <<ADVISORY>>, calls |-> 0]
  ELSE IF reply \in TransportFailures
    THEN [exc |-> FALSE, val |-> <<ERR_API, reply>>, calls |-> 1]
  ELSE IF reply \in {"missing_key", "empty_list"}
    THEN [exc |-> FALSE, val |-> <<ERR_PARSE, reply>>, calls |-> 1]
  ELSE IF reply = "bad_type"
    THEN [exc |-> FALSE, val |-> <<ERR_UNEXPECTED, reply>>, calls |-> 1]
  ELSE [exc |-> FALSE, val |-> <<ANSWER>>, calls |-> 1]

\* Mutant: the inner try/except (KeyError, IndexError) is missing.
query_gemini_no_parse_handler(prompt, ctx, reply) ==
  IF strip(ctx) = <<>> THEN [exc |-> FALSE, val |-> <<ADVISORY>>, calls |-> 0]
  ELSE IF reply \in TransportFailures
    THEN [exc |-> FALSE, val |-> <<ERR_API, reply>>, calls |-> 1]
  ELSE IF reply \in ShapeFailures
    THEN [exc |-> FALSE, val |-> <<ERR_UNEXPECTED, reply>>, calls |-> 1]
  ELSE [exc |-> FALSE, val |-> <<ANSWER>>, calls |-> 1]

\* query_gemini(prompt, context): [exc, val, calls], calls the requests.post calls made.
query_gemini(prompt, ctx, reply) ==
  IF strip(ctx) = <<>> THEN [exc |-> FALSE, val |-> <<ADVISORY>>, calls |-> 0]
  ELSE IF reply \in TransportFailures
    THEN [exc |-> FALSE, val |-> <<ERR_API, reply>>, calls |-> 1]
  ELSE IF reply \in {"missing_key", "empty_list"}
    THEN [exc |-> FALSE, val |-> <<ERR_PARSE, reply>>, calls |-> 1]
  ELSE IF reply = "bad_type"
    THEN [exc |-> FALSE, val |-> <<ERR_UNEXPECTED, reply>>, calls |-> 1]
  ELSE [exc |-> FALSE, val |-> <<ANSWER>>, calls |-> 1]

\* query_ollama(prompt, context): one except clause for everything.
query_ollama(prompt, ctx, reply) ==
  IF strip(ctx) = <<>> THEN [exc |-> FALSE, val |-> <<ADVISORY>>, calls |-> 0]
  ELSE IF reply # "good"
    THEN [exc |-> FALSE, val |-> <<ERR_OLLAMA, reply>>, calls |-> 1]
  ELSE [exc |-> FALSE, val |-> <<ANSWER>>, calls |-> 1]

query(v, prompt, ctx, reply) ==
  IF v = "gemini" THEN query_gemini(prompt, ctx, reply) ELSE query_ollama(prompt, ctx, reply)

\* ------------------------------------------------------------------ inputs
Variants == {"gemini", "ollama"}
QUERY == <<"Q">>

\* One glyph per position of a generated page: row i is top-level node i, column 1
\* its own text and column 2 its child's text.
GlyphTab == << <<"a", "b">>, <<"c", "d">>, <<"e", "f">>, <<"g", "h">>, <<"i", "j">> >>
Glyphs == {GlyphTab[i][j] : i \in 1..Len(GlyphTab), j \in 1..2}

\* The text run of glyph g: n copies, plain, or with whitespace around and blank
\* lines inside, or whitespace only.
Run(g, n, st) ==
  IF st = "plain" THEN Rep(g, n)
  ELSE IF st = "padded" THEN <<SP, NL>> \o Rep(g, n) \o <<SP, NL, SP, NL, g, SP>>
  ELSE <<SP, NL>>

Kinds == << [tag |-> "main", cls |-> {}], [tag |-> "article", cls |-> {}],
            [tag |-> "div", cls |-> {"content", "wide"}],
            [tag |-> "div", cls |-> {"sidebar"}], [tag |-> "nav", cls |-> {}] >>

\* The element at top-level position i: of kind k, holding its own text run and,
\* when kid > 0, one child element of kind kid with a text run of its own.
TopNode(i, k, kid, n, st) ==
  Elem(Kinds[k].tag, Kinds[k].cls,
       <<Text(Run(GlyphTab[i][1], n, st))>>
       \o (IF kid = 0 THEN <<>>
           ELSE <<Elem(Kinds[kid].tag, Kinds[kid].cls, <<Text(Run(GlyphTab[i][2], n, st))>>)>>))

\* A page is described by its shape (per top-level node, its kind and its child's
\* kind), the length of its text runs and their style.
Shapes(m) == [1..m -> (1..Len(Kinds)) \X (0..Len(Kinds))]
MkPage(d) == [i \in 1..Len(d.shape) |-> TopNode(i, d.shape[i][1], d.shape[i][2], d.n, d.st)]

LongLens == {MaxContentLen \div 2, MaxContentLen - 1, MaxContentLen, MaxContentLen + 1}

UnitPages ==
  { [shape |-> sh, n |-> 1, st |-> "plain"] : sh \in UNION {Shapes(m) : m \in 0..MaxTop} }
  \cup { [shape |-> sh, n |-> 1, st |-> st] : sh \in Shapes(1), st \in {"padded", "blank"} }
  \cup { [shape |-> sh, n |-> n, st |-> st] :
           sh \in Shapes(1), n \in LongLens, st \in {"plain", "padded"} }

UnitUrl == <<"u">>
\* Contexts handed to the answer generator directly.
UnitContexts == {<<>>, <<SP>>, <<NL, SP, NL>>, <<"x">>, <<SP, "x", NL>>}

NoResp == Failed("none")
NoArg == [fn |-> "none", url |-> <<>>, resp |-> NoResp, ctx |-> <<>>, reply |-> "none"]
ExtractArg(r) == [fn |-> "extract_content", url |-> UnitUrl, resp |-> r, ctx |-> <<>>, reply |-> "none"]
QueryArg(c, r) == [fn |-> "query", url |-> <<>>, resp |-> NoResp, ctx |-> c, reply |-> r]

\* self.model = "granite3-moe:3b-instruct-q8_0"
DEFAULT_MODEL == "granite3-moe:3b-instruct-q8_0"
\* SearchShell.__init__: the shell's fields and its wrapper's model_name.
ShellInit == [show_context |-> FALSE, num_results |-> DefaultResults,
              model |-> DEFAULT_MODEL, model_name |-> DEFAULT_MODEL]
\* The blocks and the document of the Google variant's generate_context when both
\* assemblers are run on the same records.
NoPeer == [context |-> <<>>, doc |-> <<>>]
\* The model the Google variant's api_url names, whatever the shell holds.
GEMINI_MODEL == "gemini-1.5-flash-8b"
\* What the shell's commands have done so far: the value last given to "config
\* set" for each parameter and the parameters it was given for, the values the
\* last search ran with and the parameters its flags gave, and the last command.
NoLog == [configured |-> [results |-> DefaultResults, show_context |-> FALSE,
                          model |-> DEFAULT_MODEL],
          set |-> {},
          used |-> [results |-> DefaultResults, show_context |-> FALSE,
                    model |-> DEFAULT_MODEL],
          flags |-> {}, last |-> "none"]

\* ----------------------------------------------------- direct (unit) calls
InitUnit ==
  /\ variant \in Variants
  /\ pc = "unit"
  /\ \/ \E d \in UnitPages : arg = ExtractArg(Ok(MkPage(d)))
     \/ \E k \in Failures : arg = ExtractArg(Failed(k))
     \/ \E c \in UnitContexts, r \in Replies : arg = QueryArg(c, r)
  /\ num_results = DefaultResults
  /\ provider = [items |-> <<>>, fails |-> FALSE]
  /\ collected = <<>> /\ results = <<>> /\ idx = 1
  /\ context = <<>> /\ origin = <<>> /\ content = <<>> /\ doc = <<>>
  /\ response = <<>> /\ calls = 0 /\ raised = FALSE /\ trace = <<>>
  /\ peer = NoPeer /\ shell = ShellInit /\ log = NoLog

\* wrapper.extract_content(url) called on its own.
CallExtract ==
  /\ pc = "unit" /\ arg.fn = "extract_content"
  /\ LET r == extract_content(arg.url, arg.resp)
     IN /\ content' = r.val
        /\ raised' = r.exc
  /\ pc' = "unit_done"
  /\ UNCHANGED <<peer, shell, log>>
  /\ UNCHANGED <<variant, arg, num_results, provider, collected, results, idx,
                 context, origin, doc, response, calls, trace>>

\* wrapper.query_gemini / query_ollama (prompt, context) called on its own.
CallQuery ==
  /\ pc = "unit" /\ arg.fn = "query"
  /\ LET r == query(variant, QUERY, arg.ctx, arg.reply)
     IN /\ response' = r.val
        /\ calls' = calls + r.calls
        /\ raised' = r.exc
  /\ doc' = arg.ctx
  /\ pc' = "unit_done"
  /\ UNCHANGED <<peer, shell, log>>
  /\ UNCHANGED <<variant, arg, num_results, provider, collected, results, idx,
                 context, origin, content, trace>>

NextUnit == CallExtract \/ CallQuery

SpecUnit == InitUnit /\ [][NextUnit]_vars

\* ------------------------------------------------------- search providers
UrlTab == <<"u1", "u2", "u3", "u4", "u5">>
TitleTab == <<"t1", "t2", "t3", "t4", "t5">>
SnippetTab == <<"s1", "s2", "s3", "s4", "s5">>
PageTitleTab == <<"p1", "p2", "p3", "p4", "p5">>

\* The record the backend may return at position i: DuckDuckGo gives href, title
\* and body, any of which the assembler reads with .get(key, ''); googlesearch
\* yields the URL alone.
ProviderRecords(v, i) ==
  IF v = "ollama"
    THEN { [href |-> h, title |-> <<TitleTab[i]>>, body |-> b] :
             h \in {<<>>, <<UrlTab[i]>>}, b \in {<<>>, <<SnippetTab[i]>>} }
    ELSE { [href |-> h, title |-> <<>>, body |-> <<>>] : h \in {<<>>, <<UrlTab[i]>>} }

RECURSIVE ProviderItems(_, _)
ProviderItems(v, m) ==
  IF m = 0 THEN {<<>>}
  ELSE {Append(p, r) : p \in ProviderItems(v, m - 1), r \in ProviderRecords(v, m)}

\* The page served for result i: a title with whitespace around it, navigation,
\* and a main region; and a page with nothing to extract.
PipePage(i) ==
  << Elem("title", {}, <<Text(<<SP, PageTitleTab[i], NL>>)>>),
     Elem("nav", {}, <<Text(<<"menu">>)>>),
     Elem("main", {}, <<Text(<<GlyphTab[i][1], SP, NL, NL, GlyphTab[i][2]>>)>>) >>
EmptyPage == << Elem("title", {}, <<>>), Elem("script", {}, <<Text(<<"js">>)>>) >>

\* requests.get("") raises before anything is sent.
ContentResponses(url, i) ==
  IF url = <<>> THEN {Failed("conn_error")}
  ELSE {Failed("timeout"), Failed("http_error"), Ok(PipePage(i)), Ok(EmptyPage)}
TitleResponses(url, i) ==
  IF url = <<>> THEN {Failed("conn_error")}
  ELSE {Failed("timeout"), Ok(PipePage(i))}

Ev(op, url) == [op |-> op, url |-> url]

\* Mutant: the except clause returns what was collected before the failure.
search_web_partial(v, prov, acc) ==
  [exc |-> FALSE, val |-> IF v = "gemini" THEN acc ELSE IF prov.fails THEN <<>> ELSE prov.items]

\* search_web's return once the backend's iterator has ended: by exhaustion, or
\* (prov.fails) by raising; acc is the list the Google variant has built so far.
search_web(v, prov, acc) ==
  IF prov.fails THEN [exc |-> FALSE, val |-> <<>>]
  ELSE [exc |-> FALSE, val |-> IF v = "gemini" THEN acc ELSE prov.items]

\* Mutant: the fallback entry keeps an (empty) Content section.
context_entry_content_always(v, r, c) ==
  IF v = "ollama"
    THEN <<"Source: ">> \o r.title \o <<NL, "URL: ">> \o r.href \o <<NL, "Summary: ">>
         \o r.body \o <<NL, NL, "Content:", NL>> \o c \o <<NL, SEP, NL>>
    ELSE <<"Source: ">> \o r.title \o <<NL, "URL: ">> \o r.href
         \o <<NL, NL, "Content:", NL>> \o c \o <<NL, SEP, NL>>

\* Mutant: the Google variant's fallback entry leaves the URL line out.
context_entry_fallback_without_url(v, r, c) ==
  IF v = "ollama"
    THEN IF c # <<>>
      THEN <<"Source: ">> \o r.title \o <<NL, "URL: ">> \o r.href \o <<NL, "Summary: ">>
           \o r.body \o <<NL, NL, "Content:", NL>> \o c \o <<NL, SEP, NL>>
      ELSE <<"Source: ">> \o r.title \o <<NL, "URL: ">> \o r.href \o <<NL, "Summary: ">>
           \o r.body \o <<NL, SEP, NL>>
    ELSE IF c # <<>>
      THEN <<"Source: ">> \o r.title \o <<NL, "URL: ">> \o r.href
           \o <<NL, NL, "Content:", NL>> \o c \o <<NL, SEP, NL>>
      ELSE <<"Source: ">> \o r.title \o <<NL, SEP, NL>>

\* One context_entry of generate_context.
context_entry(v, r, c) ==
  IF v = "ollama"
    THEN IF c # <<>>
      THEN <<"Source: ">> \o r.title \o <<NL, "URL: ">> \o r.href \o <<NL, "Summary: ">>
           \o r.body \o <<NL, NL, "Content:", NL>> \o c \o <<NL, SEP, NL>>
      ELSE <<"Source: ">> \o r.title \o <<NL, "URL: ">> \o r.href \o <<NL, "Summary: ">>
           \o r.body \o <<NL, SEP, NL>>
    ELSE IF c # <<>>
      THEN <<"Source: ">> \o r.title \o <<NL, "URL: ">> \o r.href
           \o <<NL, NL, "Content:", NL>> \o c \o <<NL, SEP, NL>>
      ELSE <<"Source: ">> \o r.title \o <<NL, "URL: ">> \o r.href \o <<NL, SEP, NL>>

\* Mutant: time.sleep(1) sits inside the "if content" branch.
process_result_sleep_on_content(v, r, resp) ==
  IF v = "ollama" /\ r.href = <<>>
    THEN [exc |-> FALSE, blocks |-> <<>>, events |-> <<>>, content |-> <<>>]
    ELSE LET c == extract_content(r.href, resp)
         IN IF c.exc
              THEN [exc |-> TRUE, blocks |-> <<>>,
                    events |-> <<Ev("get_content", r.href)>>, content |-> <<>>]
              ELSE [exc |-> FALSE, blocks |-> <<context_entry(v, r, c.val)>>,
                    events |-> <<Ev("get_content", r.href)>>
                               \o (IF c.val # <<>> THEN <<Ev("sleep", <<>>)>> ELSE <<>>),
                    content |-> c.val]

\* Mutant: a result whose extraction gave nothing gets no block.
process_result_skip_empty(v, r, resp) ==
  IF v = "ollama" /\ r.href = <<>>
    THEN [exc |-> FALSE, blocks |-> <<>>, events |-> <<>>, content |-> <<>>]
    ELSE LET c == extract_content(r.href, resp)
         IN IF c.exc
              THEN [exc |-> TRUE, blocks |-> <<>>,
                    events |-> <<Ev("get_content", r.href)>>, content |-> <<>>]
              ELSE [exc |-> FALSE,
                    blocks |-> IF c.val # <<>> THEN <<context_entry(v, r, c.val)>> ELSE <<>>,
                    events |-> <<Ev("get_content", r.href), Ev("sleep", <<>>)>>,
                    content |-> c.val]

\* One iteration of generate_context's loop over results: the blocks it appends
\* (none or one), the requests and pauses it makes, and the content it extracted.
process_result(v, r, resp) ==
  IF v = "ollama" /\ r.href = <<>>
    THEN [exc |-> FALSE, blocks |-> <<>>, events |-> <<>>, content |-> <<>>]
    ELSE LET c == extract_content(r.href, resp)
         IN IF c.exc
              THEN [exc |-> TRUE, blocks |-> <<>>,
                    events |-> <<Ev("get_content", r.href)>>, content |-> <<>>]
              ELSE [exc |-> FALSE, blocks |-> <<context_entry(v, r, c.val)>>,
                    events |-> <<Ev("get_content", r.href), Ev("sleep", <<>>)>>,
                    content |-> c.val]

\* ----------------------------------------------------------- the pipeline
\* do_search / main: generate_context(query, num_results), then query_*(query, context).
Init ==
  /\ variant \in Variants
  /\ pc = "search"
  /\ arg = NoArg
  /\ num_results \in 1..MaxResults
  /\ provider \in { [items |-> it, fails |-> f] :
                      it \in UNION {ProviderItems(variant, m) : m \in 0..num_results},
                      f \in BOOLEAN }
  /\ collected = <<>> /\ results = <<>> /\ idx = 1
  /\ context = <<>> /\ origin = <<>> /\ content = <<>> /\ doc = <<>>
  /\ response = <<>> /\ calls = 0 /\ raised = FALSE /\ trace = <<>>
  /\ peer = NoPeer /\ shell = ShellInit /\ log = NoLog

\* Google variant: the iterator yields the next URL and its title is looked up.
SearchYield ==
  /\ pc = "search" /\ variant = "gemini"
  /\ Len(collected) < Len(provider.items)
  /\ LET i == Len(collected) + 1
         url == provider.items[i].href
     IN \E resp \in TitleResponses(url, i) :
          LET t == _get_page_title(url, resp)
          IN /\ collected' = Append(collected, [href |-> url, title |-> t.val, body |-> <<>>])
             /\ trace' = Append(trace, Ev("get_title", url))
  /\ UNCHANGED <<peer, shell, log>>
  /\ UNCHANGED <<variant, pc, arg, num_results, provider, results, idx, context,
                 origin, content, doc, response, calls, raised>>

\* search_web returns (both variants).
SearchReturn ==
  /\ pc = "search"
  /\ variant = "gemini" => Len(collected) = Len(provider.items)
  /\ LET r == search_web(variant, provider, collected)
     IN /\ results' = r.val
        /\ raised' = r.exc
        /\ pc' = IF r.exc THEN "done" ELSE "assemble"
  /\ UNCHANGED <<peer, shell, log>>
  /\ UNCHANGED <<variant, arg, num_results, provider, collected, idx, context,
                 origin, content, doc, response, calls, trace>>

\* One iteration of "for result in results".
AssembleStep ==
  /\ pc = "assemble" /\ idx <= Len(results)
  /\ \E resp \in ContentResponses(results[idx].href, idx) :
       LET p == process_result(variant, results[idx], resp)
       IN /\ context' = context \o p.blocks
          /\ origin' = origin \o [k \in 1..Len(p.blocks) |->
                                   [i |-> idx, content |-> p.content, kind |-> resp.kind]]
          /\ content' = p.content
          /\ trace' = trace \o p.events
          /\ raised' = p.exc
          /\ pc' = IF p.exc THEN "done" ELSE pc
  /\ idx' = idx + 1
  /\ UNCHANGED <<peer, shell, log>>
  /\ UNCHANGED <<variant, arg, num_results, provider, collected, results, doc,
                 response, calls>>

\* return "\n".join(context)
AssembleReturn ==
  /\ pc = "assemble" /\ idx > Len(results)
  /\ doc' = join(<<NL>>, context)
  /\ pc' = "query"
  /\ UNCHANGED <<peer, shell, log>>
  /\ UNCHANGED <<variant, arg, num_results, provider, collected, results, idx,
                 context, origin, content, response, calls, raised, trace>>

\* response = wrapper.query_gemini / query_ollama (query, context)
Query ==
  /\ pc = "query"
  /\ \E reply \in Replies :
       LET r == query(variant, QUERY, doc, reply)
       IN /\ response' = r.val
          /\ calls' = calls + r.calls
          /\ raised' = r.exc
          /\ trace' = trace \o [k \in 1..r.calls |-> Ev("complete", <<>>)]
  /\ pc' = "done"
  /\ UNCHANGED <<peer, shell, log>>
  /\ UNCHANGED <<variant, arg, num_results, provider, collected, results, idx,
                 context, origin, content, doc>>

Next == SearchYield \/ SearchReturn \/ AssembleStep \/ AssembleReturn \/ Query

Spec == Init /\ [][Next]_vars

\* ================================================================= claims
Blank(s) == \A i \in 1..Len(s) : s[i] \in Whitespace
Range(s) == {s[i] : i \in 1..Len(s)}
QueryDone == pc = "unit_done" /\ arg.fn = "query"
ExtractDone == pc = "unit_done" /\ arg.fn = "extract_content"

\* C1: when the context handed to query_gemini / query_ollama is empty or holds
\* only whitespace, the call returns the fixed no-context advisory string and no
\* request is made to the completion backend.
C1_BlankContextAdvisoryNoCall ==
  (QueryDone /\ Blank(arg.ctx)) =>
    (response = <<ADVISORY>> /\ calls = 0 /\ ~raised)

\* C1 witness: a whitespace-only, non-empty context was answered with the advisory.
C1_Witness ==
  /\ QueryDone /\ variant = "gemini" /\ arg.ctx = <<NL, SP, NL>> /\ arg.reply = "good"
  /\ response = <<ADVISORY>> /\ calls = 0

\* The prefix a variant gives its transport-error string.
TransportPrefix(v) == IF v = "gemini" THEN ERR_API ELSE ERR_OLLAMA

\* C6 as stated: for every non-empty context exactly one completion request is
\* made and a string is returned; a transport or HTTP failure gives an error
\* string embedding the failure, and a response lacking the expected fields gives
\* a parse-error string that is not the transport-error string.
C6_Original ==
  (QueryDone /\ arg.ctx # <<>>) =>
    /\ calls = 1 /\ ~raised /\ response # <<>>
    /\ arg.reply \in TransportFailures => response = <<TransportPrefix(variant), arg.reply>>
    /\ arg.reply \in ShapeFailures =>
         (arg.reply \in Range(response) /\ response[1] # TransportPrefix(variant))

\* C6 amended: for every context holding a non-whitespace character exactly one
\* completion request is made and a string is returned, never an exception; a
\* transport or HTTP failure gives the variant's error string embedding the
\* failure; a response lacking the expected fields gives, in query_gemini, the
\* parse-error string (KeyError, IndexError) or the unexpected-error string (any
\* other exception), both distinct from its transport-error string, and in
\* query_ollama the same "Error querying Ollama" string as a transport failure.
C6_OneRequestAlwaysString ==
  (QueryDone /\ ~Blank(arg.ctx)) =>
    /\ calls = 1 /\ ~raised /\ response # <<>>
    /\ arg.reply = "good" => response = <<ANSWER>>
    /\ arg.reply \in TransportFailures => response = <<TransportPrefix(variant), arg.reply>>
    /\ (variant = "gemini" /\ arg.reply \in {"missing_key", "empty_list"}) =>
         response = <<ERR_PARSE, arg.reply>>
    /\ (variant = "gemini" /\ arg.reply = "bad_type") =>
         response = <<ERR_UNEXPECTED, arg.reply>>
    /\ (variant = "ollama" /\ arg.reply \in ShapeFailures) =>
         response = <<ERR_OLLAMA, arg.reply>>

\* C6 witness: query_gemini answered a response without its candidates key with
\* the parse-error string, after one request.
C6_Witness ==
  /\ QueryDone /\ variant = "gemini" /\ arg.ctx = <<SP, "x", NL>>
  /\ arg.reply = "missing_key" /\ response = <<ERR_PARSE, "missing_key">> /\ calls = 1

\* C7: whatever the fetch gives, extract_content returns at most 2000 characters,
\* and when the cleaned page text is longer it returns exactly its first 2000.
C7_ContentAtMost2000 ==
  ExtractDone =>
    /\ ~raised
    /\ Len(content) <= MaxContentLen
    /\ arg.resp.kind \in Failures => content = <<>>
    /\ arg.resp.kind = "ok" =>
         LET t == page_text(arg.resp.page)
         IN /\ Len(t) > MaxContentLen =>
                 (Len(content) = MaxContentLen /\ \A i \in 1..MaxContentLen : content[i] = t[i])
            /\ Len(t) <= MaxContentLen => content = t

\* C7 witness: a page whose cleaned text is longer than 2000 characters was cut.
C7_Witness ==
  /\ ExtractDone /\ arg.resp.kind = "ok"
  /\ Len(page_text(arg.resp.page)) > MaxContentLen
  /\ Len(content) = MaxContentLen

\* The glyphs of the text that is not inside an unwanted element.
RECURSIVE KeptGlyphs(_)
KeptGlyphs(nodes) ==
  IF nodes = <<>> THEN {}
  ELSE LET n == Head(nodes)
       IN (IF n.tag = "#text" THEN Range(n.text) \ Whitespace
           ELSE IF n.tag \in Unwanted THEN {}
           ELSE KeptGlyphs(n.kids))
          \cup KeptGlyphs(Tail(nodes))

\* The elements that are neither unwanted nor inside an unwanted element, in
\* document order.
RECURSIVE KeptElems(_)
KeptElems(nodes) ==
  IF nodes = <<>> THEN <<>>
  ELSE LET n == Head(nodes)
       IN (IF n.tag = "#text" \/ n.tag \in Unwanted THEN <<>>
           ELSE <<n>> \o KeptElems(n.kids))
          \o KeptElems(Tail(nodes))

First(m) == IF m = <<>> THEN <<>> ELSE <<m[1]>>

\* The region the priority order names: the first main, else the first article,
\* else the first div with a class among content, main, article; <<>> when the
\* page has none of them.
Region(page) ==
  LET es == KeptElems(page)
      m == First(SelectSeq(es, LAMBDA n : n.tag = "main"))
      a == First(SelectSeq(es, LAMBDA n : n.tag = "article"))
      d == First(SelectSeq(es, LAMBDA n : n.tag = "div"
                                           /\ n.cls \cap {"content", "main", "article"} # {}))
  IN IF m # <<>> THEN m ELSE IF a # <<>> THEN a ELSE d

\* C10: with the script/style/nav/header/footer/iframe/noscript nodes removed,
\* extract_content takes its text from the first main, else the first article,
\* else the first div with a class among content, main, article, and from the
\* whole remaining document only when there is none; text outside the chosen
\* region (or inside a removed node) never appears in the result, and every text
\* of the region appears unless the 2000-character cut removed it.
C10_RegionPriority ==
  (ExtractDone /\ arg.resp.kind = "ok") =>
    LET r == Region(arg.resp.page)
        expected == IF r # <<>> THEN KeptGlyphs(r[1].kids) ELSE KeptGlyphs(arg.resp.page)
        got == Range(content) \ Whitespace
    IN /\ got \subseteq expected
       /\ Len(content) < MaxContentLen => got = expected

\* C10 witness: an article comes first in the document and holds text, a div of
\* class content follows and holds a main; only the main's text was returned.
C10_Witness ==
  /\ ExtractDone /\ arg.resp.kind = "ok"
  /\ Len(arg.resp.page) = 2
  /\ arg.resp.page[1].tag = "article"
  /\ arg.resp.page[2].tag = "div" /\ "content" \in arg.resp.page[2].cls
  /\ Len(arg.resp.page[2].kids) = 2 /\ arg.resp.page[2].kids[2].tag = "main"
  /\ content = <<GlyphTab[2][2]>>

\* ------------------------------------------------------- pipeline claims
Assembled == pc \in {"query", "done"}
\* The results generate_context has gone through so far.
Processed == IF pc = "assemble" THEN idx - 1 ELSE IF Assembled THEN Len(results) ELSE 0
WithUrl(n) == {i \in 1..n : results[i].href # <<>>}
Pos(b, tok) == CHOOSE i \in 1..Len(b) : b[i] = tok
ContentGets == SelectSeq(trace, LAMBDA e : e.op = "get_content")

C3_Original ==
  Assembled =>
    /\ Len(context) <= num_results
    /\ Len(context) <= Cardinality(WithUrl(Len(results)))

\* C4: a block built from a result with a snippet whose extraction gave content
\* holds, in this order, the Source line, the URL line, the Summary line and the
\* Content section followed by the separator line; a block built from a result
\* whose extraction gave the empty string holds no Content section.
C4_BlockLayout ==
  \A k \in 1..Len(context) :
    LET b == context[k]
        r == results[origin[k].i]
        c == origin[k].content
    IN /\ (r.body # <<>> /\ c # <<>>) =>
            /\ {"Source: ", "URL: ", "Summary: ", "Content:", SEP} \subseteq Range(b)
            /\ LET p1 == Pos(b, "Source: ")
                   p2 == Pos(b, "URL: ")
                   p3 == Pos(b, "Summary: ")
                   p4 == Pos(b, "Content:")
                   p5 == Pos(b, SEP)
               IN /\ p1 = 1 /\ p1 < p2 /\ p2 < p3 /\ p3 < p4 /\ p4 < p5
                  /\ SubSeq(b, p1 + 1, p2 - 1) = r.title \o <<NL>>
                  /\ SubSeq(b, p2 + 1, p3 - 1) = r.href \o <<NL>>
                  /\ SubSeq(b, p3 + 1, p4 - 1) = r.body \o <<NL, NL>>
                  /\ SubSeq(b, p4 + 1, p5 - 1) = <<NL>> \o c \o <<NL>>
                  /\ SubSeq(b, p5 + 1, Len(b)) = <<NL>>
       /\ c = <<>> =>
            /\ "Content:" \notin Range(b)
            /\ {"Source: ", "URL: ", SEP} \subseteq Range(b)

\* C4 witness: the first block has a snippet and content, the second was built
\* after an extraction that gave nothing.
C4_Witness ==
  /\ pc = "done" /\ variant = "ollama" /\ Len(context) = 2
  /\ results[origin[1].i].body # <<>> /\ origin[1].content # <<>>
  /\ "Content:" \in Range(context[1])
  /\ origin[2].content = <<>> /\ "Summary: " \in Range(context[2])

\* The results generate_context fetches: all of them in the Google variant, those
\* with a URL in the DuckDuckGo variant.
Fetched(n) == IF variant = "gemini" THEN 1..n ELSE WithUrl(n)

\* C5: a failed page fetch never aborts generate_context: extract_content returns
\* the empty string instead of raising, the result still gives exactly one block,
\* without a Content section, every later result is still fetched and processed,
\* and the answer generator is invoked afterwards.
C5_FetchFailureNeverAborts ==
  /\ ~raised
  /\ pc # "done" => ENABLED Next
  /\ Len(context) = Cardinality(Fetched(Processed))
  /\ Len(origin) = Len(context) /\ Len(ContentGets) = Len(context)
  /\ \A k \in 1..Len(origin) :
       /\ origin[k].i \in Fetched(Processed)
       /\ \A l \in 1..(k - 1) : origin[l].i < origin[k].i
       /\ ContentGets[k].url = results[origin[k].i].href
       /\ origin[k].kind \in Failures =>
            (origin[k].content = <<>> /\ "Content:" \notin Range(context[k]))
  /\ pc = "done" => response # <<>>

\* C5 witness: the first fetch timed out, the second page gave content, and the
\* backend was asked once.
C5_Witness ==
  /\ pc = "done" /\ Len(origin) = 2
  /\ origin[1].kind = "timeout" /\ results[origin[1].i].href # <<>>
  /\ origin[2].kind = "ok" /\ origin[2].content # <<>>
  /\ calls = 1 /\ response = <<ANSWER>>

\* C8 as stated: the blocks stand in the order of the results they were built
\* from, the pages are fetched one at a time in that order, and the document is
\* the empty string when the search returned nothing or every result lacked a URL.
C8_Original ==
  Assembled =>
    /\ \A k \in 1..Len(origin) :
         /\ \A l \in 1..(k - 1) : origin[l].i < origin[k].i
         /\ k <= Len(ContentGets) /\ ContentGets[k].url = results[origin[k].i].href
    /\ doc = join(<<NL>>, context)
    /\ WithUrl(Len(results)) = {} => doc = <<>>

PageRequest(e) == e.op \in {"get_title", "get_content"} /\ e.url # <<>>
Sleeps == SelectSeq(trace, LAMBDA e : e.op = "sleep")

\* C9 as stated: a pause follows the processing of each search result, and no two
\* page requests to target sites, title lookups and content fetches alike, are
\* issued without a pause between them.
C9_Original ==
  /\ Assembled => Len(Sleeps) = Len(results)
  /\ \A i \in 1..Len(trace) : \A j \in (i + 1)..Len(trace) :
       (PageRequest(trace[i]) /\ PageRequest(trace[j])) =>
         \E k \in (i + 1)..(j - 1) : trace[k].op = "sleep"

\* C9 amended: a pause follows the processing of each result that is fetched
\* (every result in the Google variant, every result with a URL in the DuckDuckGo
\* variant), directly after its content fetch, so no two content fetches are
\* issued without a pause between them; title lookups are not paused.
C9_PauseAfterEachFetch ==
  /\ Len(Sleeps) = Cardinality(Fetched(Processed))
  /\ \A i \in 1..Len(trace) :
       trace[i].op = "get_content" => (i < Len(trace) /\ trace[i + 1].op = "sleep")
  /\ \A i \in 1..Len(trace) : \A j \in (i + 1)..Len(trace) :
       (trace[i].op = "get_content" /\ trace[j].op = "get_content") =>
         \E k \in (i + 1)..(j - 1) : trace[k].op = "sleep"

\* C9 witness: two pages were fetched, the first fetch failed, and a pause
\* followed each.
C9_Witness ==
  /\ pc = "done" /\ Len(ContentGets) = 2 /\ Len(Sleeps) = 2
  /\ origin[1].kind = "http_error"
  /\ ContentGets[1].url # <<>> /\ ContentGets[2].url # <<>>

\* C13: in one pipeline invocation the completion backend is called if and only
\* if generate_context produced at least one block; every result with a URL has
\* its block even when its fetch failed, so a run whose every page fetch failed
\* still calls the backend, with a context of Source/URL blocks and no Content
\* section, and its response is not the no-context advisory.
C13_BackendCalledIffBlock ==
  pc = "done" =>
    /\ calls \in {0, 1}
    /\ calls = 1 <=> Len(context) >= 1
    /\ calls = 0 => response = <<ADVISORY>>
    /\ \A i \in WithUrl(Len(results)) : \E k \in 1..Len(origin) : origin[k].i = i
    /\ (Len(origin) >= 1 /\ \A k \in 1..Len(origin) : origin[k].kind \in Failures) =>
         /\ calls = 1
         /\ response # <<ADVISORY>>
         /\ "Content:" \notin Range(doc)
         /\ "Source: " \in Range(doc) /\ "URL: " \in Range(doc)

\* C13 witness: two results with URLs, both fetches failed, and the backend was
\* called once and answered.
C13_Witness ==
  /\ pc = "done" /\ Len(results) = 2 /\ Len(origin) = 2
  /\ origin[1].kind = "timeout" /\ origin[2].kind = "http_error"
  /\ results[1].href # <<>> /\ results[2].href # <<>>
  /\ calls = 1 /\ response = <<ANSWER>>

\* --------------------------------- both assemblers on the same records
\* The record at position i of a result list whose snippets are all empty.
PairRecords(i) ==
  { [href |-> h, title |-> t, body |-> <<>>] :
      h \in {<<>>, <<UrlTab[i]>>}, t \in {<<>>, <<TitleTab[i]>>} }

RECURSIVE PairResults(_)
PairResults(m) ==
  IF m = 0 THEN {<<>>}
  ELSE {Append(p, r) : p \in PairResults(m - 1), r \in PairRecords(m)}

\* `context` and `doc` are OllamaWebWrapper.generate_context's, `peer` holds
\* GeminiWebWrapper.generate_context's, both looping over `results`.
InitPair ==
  /\ variant = "ollama"
  /\ pc = "pair"
  /\ arg = NoArg
  /\ num_results = MaxResults
  /\ provider = [items |-> <<>>, fails |-> FALSE]
  /\ collected = <<>>
  /\ results \in UNION {PairResults(m) : m \in 0..MaxResults}
  /\ idx = 1
  /\ context = <<>> /\ origin = <<>> /\ content = <<>> /\ doc = <<>>
  /\ response = <<>> /\ calls = 0 /\ raised = FALSE /\ trace = <<>>
  /\ peer = NoPeer /\ shell = ShellInit /\ log = NoLog

\* One iteration of "for result in results" in each variant, the page fetch
\* ending the same way for both.
PairStep ==
  /\ pc = "pair" /\ idx <= Len(results)
  /\ \E resp \in ContentResponses(results[idx].href, idx) :
       LET po == process_result("ollama", results[idx], resp)
           pg == process_result("gemini", results[idx], resp)
       IN /\ context' = context \o po.blocks
          /\ origin' = origin \o [k \in 1..Len(po.blocks) |->
                                   [i |-> idx, content |-> po.content, kind |-> resp.kind]]
          /\ content' = po.content
          /\ peer' = [peer EXCEPT !.context = @ \o pg.blocks]
          /\ raised' = (po.exc \/ pg.exc)
  /\ idx' = idx + 1
  /\ UNCHANGED <<variant, pc, arg, num_results, provider, collected, results, doc,
                 response, calls, trace, shell, log>>

\* return "\n".join(context), in each variant.
PairReturn ==
  /\ pc = "pair" /\ idx > Len(results)
  /\ doc' = join(<<NL>>, context)
  /\ peer' = [peer EXCEPT !.doc = join(<<NL>>, peer.context)]
  /\ pc' = "pair_done"
  /\ UNCHANGED <<variant, arg, num_results, provider, collected, results, idx,
                 context, origin, content, response, calls, raised, trace, shell, log>>

NextPair == PairStep \/ PairReturn

SpecPair == InitPair /\ [][NextPair]_vars

\* The records both assemblers have gone through so far.
Processed_pair == IF pc = "pair" THEN idx - 1 ELSE Len(results)

\* A block or document without its "Summary: " tokens and the newline that ends
\* each (empty) Summary line.
DropSummary(b) ==
  LET keep == {i \in 1..Len(b) :
                 /\ b[i] # "Summary: "
                 /\ ~(i > 1 /\ b[i] = NL /\ b[i - 1] = "Summary: ")}
      F[i \in 0..Len(b)] ==
        IF i = 0 THEN <<>> ELSE IF i \in keep THEN Append(F[i - 1], b[i]) ELSE F[i - 1]
  IN F[Len(b)]

\* C11 as stated: given the same result records with empty snippets and the same
\* fetch outcomes, the two variants of generate_context return the same document.
C11_Original == pc = "pair_done" => doc = peer.doc

\* C11 amended: on the same records with empty snippets and the same fetch
\* outcomes, the DuckDuckGo variant's block for a record with a URL is the Google
\* variant's block for that record with one more line, "Summary: " with nothing
\* after it, between the URL line and the rest; the Google variant builds a block
\* for every record, the DuckDuckGo variant for the records with a URL, so that
\* when every record has a URL the documents differ in the Summary lines alone.
C11_SameButForSummaryLine ==
  /\ Len(peer.context) = Processed_pair
  /\ \A k \in 1..Len(context) :
       /\ results[origin[k].i].href # <<>>
       /\ "Summary: " \in Range(context[k])
       /\ "Summary: " \notin Range(peer.context[origin[k].i])
       /\ context[k][Pos(context[k], "Summary: ") + 1] = NL
       /\ DropSummary(context[k]) = peer.context[origin[k].i]
  /\ Len(context) = Cardinality(WithUrl(Processed_pair))
  /\ (pc = "pair_done" /\ WithUrl(Len(results)) = 1..Len(results)) =>
       DropSummary(doc) = peer.doc

\* C11 witness: two records with URLs, the first page fetched with content and the
\* second fetch failed; the documents differ.
C11_Witness ==
  /\ pc = "pair_done" /\ Len(results) = 2 /\ Len(context) = 2
  /\ origin[1].content # <<>> /\ origin[2].kind = "timeout"
  /\ doc # peer.doc /\ DropSummary(doc) = peer.doc

\* ------------------------------------------------------ the interactive shell
\* int(value) and value.lower() == 'true' on the values typed at the prompt.
int == [v \in {"1", "2"} |-> IF v = "1" THEN 1 ELSE 2]
lower_is_true == [v \in {"True", "false"} |-> v \in {"true", "True"}]
ModelNames == {"llama3"}

\* shlex.split(arg) for the arguments of "config".
ConfigArgs ==
  {<<>>, <<"show">>, <<"set", "results">>}
    \cup {<<"set", "results", v>> : v \in {"2"}}
    \cup {<<"set", "show_context", v>> : v \in DOMAIN lower_is_true}
    \cup {<<"set", "model", v>> : v \in ModelNames}

\* The flags of one "search" line: --show-context, --results=<n>, and for the
\* Ollama shell --model=<m> (the Google shell has no such flag).
SearchFlags(v) ==
  { [show |-> sh, results |-> r, model |-> m] :
      sh \in BOOLEAN, r \in {"none", "1"},
      m \in IF v = "ollama" THEN {"none"} \cup ModelNames ELSE {"none"} }

\* The while loop of do_search over the flags.
parse_flags(sh, f) ==
  [sh EXCEPT !.show_context = IF f.show THEN TRUE ELSE @,
             !.num_results = IF f.results # "none" THEN int[f.results] ELSE @,
             !.model = IF f.model # "none" THEN f.model ELSE @]
FlagParams(f) ==
  (IF f.show THEN {"show_context"} ELSE {})
    \cup (IF f.results # "none" THEN {"results"} ELSE {})
    \cup (IF f.model # "none" THEN {"model"} ELSE {})

\* The finally clause of do_search.
reset(v, sh) ==
  IF v = "ollama"
    THEN [sh EXCEPT !.show_context = FALSE, !.num_results = 3, !.model = DEFAULT_MODEL]
    ELSE [sh EXCEPT !.show_context = FALSE, !.num_results = 3]

\* What the backend returns to a search from the prompt: n records with URLs.
ShellItems(v, n) ==
  [i \in 1..n |->
     IF v = "ollama"
       THEN [href |-> <<UrlTab[i]>>, title |-> <<TitleTab[i]>>, body |-> <<SnippetTab[i]>>]
       ELSE [href |-> <<UrlTab[i]>>, title |-> <<>>, body |-> <<>>]]
\* How the network answers one search from the prompt: every page request ends
\* the same way, the page or a timeout, and the completion request likewise.
ShellEnvs == {[ok |-> TRUE, reply |-> "good"], [ok |-> FALSE, reply |-> "timeout"]}
ShellResponse(ok, i) == IF ok THEN Ok(PipePage(i)) ELSE Failed("timeout")
\* The Google variant's search_web loop: one title lookup per URL.
ShellCollected(v, items, ok) ==
  IF v = "ollama" THEN <<>>
  ELSE [i \in 1..Len(items) |->
          [href |-> items[i].href,
           title |-> _get_page_title(items[i].href, ShellResponse(ok, i)).val,
           body |-> <<>>]]

\* generate_context's loop from result i on: the blocks appended, or the
\* exception that ended it.
RECURSIVE assemble(_, _, _, _)
assemble(v, recs, ok, i) ==
  IF i > Len(recs) THEN [exc |-> FALSE, blocks |-> <<>>]
  ELSE LET p == process_result(v, recs[i], ShellResponse(ok, i))
           rest == assemble(v, recs, ok, i + 1)
       IN IF p.exc THEN [exc |-> TRUE, blocks |-> <<>>]
          ELSE [exc |-> rest.exc, blocks |-> p.blocks \o rest.blocks]

InitShell ==
  /\ variant \in Variants
  /\ pc = "prompt"
  /\ arg = NoArg
  /\ num_results = DefaultResults
  /\ provider = [items |-> <<>>, fails |-> FALSE]
  /\ collected = <<>> /\ results = <<>> /\ idx = 1
  /\ context = <<>> /\ origin = <<>> /\ content = <<>> /\ doc = <<>>
  /\ response = <<>> /\ calls = 0 /\ raised = FALSE /\ trace = <<>>
  /\ peer = NoPeer /\ shell = ShellInit /\ log = NoLog

\* SearchShell.do_config. The Google shell has no branch for "model": it prints
\* "Updated model to ..." and changes nothing.
do_config ==
  /\ pc = "prompt"
  /\ \E a \in ConfigArgs :
       IF Len(a) >= 3 /\ a[1] = "set"
         THEN /\ shell' = IF a[2] = "model" /\ variant = "ollama"
                            THEN [shell EXCEPT !.model = a[3]]
                          ELSE IF a[2] = "results"
                            THEN [shell EXCEPT !.num_results = int[a[3]]]
                          ELSE IF a[2] = "show_context"
                            THEN [shell EXCEPT !.show_context = lower_is_true[a[3]]]
                          ELSE shell
              /\ log' = [log EXCEPT
                           !.configured = IF a[2] = "model" THEN [@ EXCEPT !.model = a[3]]
                                          ELSE IF a[2] = "results"
                                            THEN [@ EXCEPT !.results = int[a[3]]]
                                          ELSE [@ EXCEPT !.show_context = lower_is_true[a[3]]],
                           !.set = @ \cup {a[2]},
                           !.last = "config_set"]
         ELSE /\ shell' = shell
              /\ log' = [log EXCEPT !.last = IF a = <<>> \/ a[1] = "show"
                                               THEN "config_show" ELSE "config_invalid"]
  /\ UNCHANGED <<variant, pc, arg, num_results, provider, collected, results, idx,
                 context, origin, content, doc, response, calls, raised, trace, peer>>

\* wrapper.generate_context(query, num_results) and wrapper.query_*(query, context)
\* as do_search calls them, under one answer of the network.
pipeline(v, q, n, env) ==
  LET items == ShellItems(v, n)
      coll == ShellCollected(v, items, env.ok)
      found == search_web(v, [items |-> items, fails |-> FALSE], coll)
      built == assemble(v, found.val, env.ok, 1)
      d == join(<<NL>>, built.blocks)
      r == query(v, q, d, env.reply)
  IN [items |-> items, collected |-> coll, results |-> found.val,
      context |-> built.blocks,
      doc |-> IF built.exc THEN <<>> ELSE d,
      response |-> IF built.exc \/ r.exc THEN <<>> ELSE r.val,
      calls |-> IF built.exc THEN 0 ELSE r.calls]

\* SearchShell.do_search: the flags, the pipeline, and the finally clause.
do_search ==
  /\ pc = "prompt"
  /\ \E f \in SearchFlags(variant), q \in {<<>>, QUERY}, env \in ShellEnvs :
       LET parsed == parse_flags(shell, f)
           called == IF variant = "ollama" THEN [parsed EXCEPT !.model_name = parsed.model]
                     ELSE parsed
       IN IF q = <<>>
            THEN /\ shell' = reset(variant, parsed)
                 /\ log' = [log EXCEPT !.last = "search_no_query"]
                 /\ UNCHANGED <<num_results, provider, collected, results, idx, context,
                                doc, response, calls, raised>>
            ELSE \E out \in {pipeline(variant, q, called.num_results, env)} :
                 /\ shell' = reset(variant, called)
                 /\ log' = [log EXCEPT
                              !.used = [results |-> called.num_results,
                                        show_context |-> called.show_context,
                                        model |-> IF variant = "ollama" THEN called.model_name
                                                  ELSE GEMINI_MODEL],
                              !.flags = FlagParams(f),
                              !.last = "search"]
                 /\ num_results' = called.num_results
                 /\ provider' = [items |-> out.items, fails |-> FALSE]
                 /\ collected' = out.collected
                 /\ results' = out.results
                 /\ idx' = Len(out.results) + 1
                 /\ context' = out.context
                 /\ doc' = out.doc
                 /\ response' = out.response
                 /\ calls' = out.calls
                 /\ raised' = FALSE
  /\ UNCHANGED <<variant, pc, arg, origin, content, trace, peer>>

NextShell == do_config \/ do_search

SpecShell == InitShell /\ [][NextShell]_vars

\* C12 as stated: a value given to "config set" for results, show_context or
\* model is the one every later search runs with, unless that search overrides
\* the parameter with a flag, until another "config set" changes it.
C12_Original ==
  log.last = "search" =>
    \A p \in log.set \ log.flags : log.used[p] = log.configured[p]

====
